---- MODULE Spec2Model ----
(***************************************************************************)
(* State-machine model of the ads-automation backend: the client registry  *)
(* (db.py), the four per-platform batch drivers and per-client syncs       *)
(* (sync/ads_sync.py, sync/meta_sync.py, sync/tiktok_sync.py,              *)
(* sync/ga4_sync.py), the daily job and scheduler (sync/scheduler.py) and   *)
(* the Meta token manager (sync/meta_token_manager.py).                    *)
(*                                                                         *)
(* External collaborators are modelled by their observable outcomes: a     *)
(* vendor call either raises or returns a report of 0..MaxRows entries, a  *)
(* BigQuery load job is atomic (it appends all rows or raises and appends  *)
(* none), create_table creates the table, raises "Already Exists" or       *)
(* raises something else.                                                  *)
(***************************************************************************)
EXTENDS Integers, Sequences, FiniteSets, TLC

VARIABLES registry, tableExists, table, run, daily, jobs,
          scheduler, env, clock, fired, tok, dbcall, kpi, execs, ins, flat

vars == <<registry, tableExists, table, run, daily, jobs,
          scheduler, env, clock, fired, tok, dbcall, kpi, execs, ins, flat>>

(***************************************************************************)
(* Bounds of the model.                                                    *)
(***************************************************************************)
MaxClients == 2
MaxRows == 1
MaxJobs == 1
MaxDays == 2

(***************************************************************************)
(* Values.                                                                 *)
(***************************************************************************)
None == "None"

Platforms == {"google_ads", "meta_ads", "tiktok_ads", "ga4"}

\* A platform identifier column holds NULL, an empty string or an account id.
IdValues == {None, "", "acct"}

\* The registry column each batch driver reads.
IdField(p) ==
    CASE p = "google_ads" -> "google_ads_id"
      [] p = "meta_ads"   -> "meta_account_id"
      [] p = "tiktok_ads" -> "tiktok_advertiser_id"
      [] p = "ga4"        -> "ga4_property_id"

\* The warehouse table each platform's sync loads into.
TableOf(p) ==
    CASE p = "google_ads" -> "google_ads_performance"
      [] p = "meta_ads"   -> "meta_ads_performance"
      [] p = "tiktok_ads" -> "tiktok_ads_performance"
      [] p = "ga4"        -> "ga4_performance"

Tables == {TableOf(p) : p \in Platforms}

Reverse(s) == [i \in 1..Len(s) |-> s[Len(s) + 1 - i]]

\* Python truthiness of c.get(<id column>): None and '' are falsy.
Truthy(v) == v # None /\ v # ""

(***************************************************************************)
(* Client registry (db.py).  Rows are kept in insertion order; created_at  *)
(* grows with the position.                                                *)
(***************************************************************************)

\* What a registry row is enumerated with: its active flag and the value of
\* one platform's identifier column (the other identifier columns are NULL).
ClientData == [active : BOOLEAN, id : IdValues]

MkRow(i, d, p) ==
    [client_name |-> i, created_at |-> i, active |-> d.active,
     google_ads_id |-> IF p = "google_ads" THEN d.id ELSE None,
     meta_account_id |-> IF p = "meta_ads" THEN d.id ELSE None,
     tiktok_advertiser_id |-> IF p = "tiktok_ads" THEN d.id ELSE None,
     ga4_property_id |-> IF p = "ga4" THEN d.id ELSE None]

\* The registries of up to MaxClients rows whose clients are set up for platform p.
Registries(p) ==
    UNION {{[i \in 1..n |-> MkRow(i, f[i], p)] : f \in [1..n -> ClientData]}
           : n \in 0..MaxClients}

\* SELECT ... FROM clients WHERE active = TRUE ORDER BY created_at DESC
get_all_clients(reg) == Reverse(SelectSeq(reg, LAMBDA c : c.active = TRUE))

(***************************************************************************)
(* Batch drivers: sync_all_clients, sync_all_meta_accounts,                *)
(* sync_all_tiktok_accounts, sync_all_ga4_properties.                      *)
(***************************************************************************)
\* ActiveClients with an "is not None" test of the identifier.
ActiveClients_NotNone(cs, p) ==
    SelectSeq(cs, LAMBDA c : c.active /\ c[IdField(p)] # None)

\* active_clients = [c for c in clients if c.get('active') and c.get(<id>)]
ActiveClients(cs, p) ==
    SelectSeq(cs, LAMBDA c : c.active /\ Truthy(c[IdField(p)]))

\* summary = {'total_clients': len(active_clients), 'successful': 0, ...}
NewSummary(n) ==
    [total_clients |-> n, successful |-> 0, failed |-> 0, total_rows |-> 0]

\* TallySuccess with total_rows assigned instead of accumulated.
TallySuccess_Overwrite(s, rows) ==
    [s EXCEPT !.successful = @ + 1, !.total_rows = rows]

\* summary['successful'] += 1; summary['total_rows'] += rows
TallySuccess(s, rows) ==
    [s EXCEPT !.successful = @ + 1, !.total_rows = @ + rows]

\* except Exception: summary['failed'] += 1
TallyFailure(s) == [s EXCEPT !.failed = @ + 1]

\* The rows a per-client sync builds from a report of n entries: one per entry.
FlattenRows(c, n, job, by) ==
    [k \in 1..n |-> [client |-> c, job |-> job, by |-> by, k |-> k]]

\* WriteDisposition as WRITE_TRUNCATE: the load replaces the table's rows.
WriteDisposition_Truncate(old, rows) == rows

\* LoadJobConfig(write_disposition="WRITE_APPEND")
WriteDisposition(old, rows) == old \o rows

IdleRun ==
    [platform |-> None, caller |-> None, pc |-> "idle",
     active_clients |-> <<>>, i |-> 0, summary |-> NewSummary(0),
     attempted |-> <<>>, returns |-> <<>>, insights |-> 0,
     trace |-> <<>>, base |-> 0]

Ev(e, c) == [ev |-> e, c |-> c]

\* Entry of a batch driver for platform p, called by `caller`.
StartRun(p, caller) ==
    [IdleRun EXCEPT !.platform = p, !.caller = caller, !.pc = "setup",
                    !.base = Len(table[TableOf(p)])]

CurTable == TableOf(run.platform)
CurClient == run.active_clients[run.i]

\* The driver-level steps of a trace.  The trace of a run holds them and the
\* steps of the latest client's sync.
DriverSteps(tr) == SelectSeq(tr, LAMBDA e : e.c = 0)

\* ClientFailed with the exception escaping the loop: the batch stops.
ClientFailed_Abort(r, e) ==
    [r EXCEPT !.summary = TallyFailure(@),
              !.returns = Append(@, [ok |-> FALSE, rows |-> 0]),
              !.pc = "raised",
              !.trace = Append(@, Ev(e, r.active_clients[r.i].client_name))]

\* The driver's except clause around one client's sync, which raised at step
\* `e`: count the failure and go on with the next client.
ClientFailed(r, e) ==
    [r EXCEPT !.summary = TallyFailure(@),
              !.returns = Append(@, [ok |-> FALSE, rows |-> 0]),
              !.i = @ + 1, !.pc = "loop",
              !.trace = Append(@, Ev(e, r.active_clients[r.i].client_name))]

\* The per-client sync returned `n`: tally it and go on with the next client.
ClientSynced(r, n) ==
    [r EXCEPT !.summary = TallySuccess(@, n),
              !.returns = Append(@, [ok |-> TRUE, rows |-> n]),
              !.i = @ + 1, !.pc = "loop"]

SchedVars == <<scheduler, env, clock, fired>>

\* The state of the components a batch run does not touch.
OtherVars == <<SchedVars, tok, dbcall, kpi, execs, ins, flat>>

\* The registry, the warehouse and the batch runs.
BatchVars == <<registry, tableExists, table, run, daily, jobs>>

\* sync = <Platform>Sync()  ->  setup_clients(): raises when a credential or
\* client construction fails, and the driver re-raises.
\* AfterSetup with the call of ensure_table_exists left out.
AfterSetup_SkipEnsure == "registry"

\* The step a driver takes after the constructor returned.
AfterSetup == "ensure"

setup_clients ==
    /\ run.pc = "setup"
    /\ \/ run' = [run EXCEPT !.pc = AfterSetup, !.trace = Append(@, Ev("setup", 0))]
       \/ run' = [run EXCEPT !.pc = "raised", !.trace = Append(@, Ev("setup", 0))]
    /\ UNCHANGED <<registry, tableExists, table, daily, jobs, OtherVars>>

\* AfterEnsure with ensure_table_exists re-raising what create_table raised.
AfterEnsure_Reraise == "raised"

\* The step a driver takes after ensure_table_exists.
AfterEnsure == "registry"

\* ensure_table_exists(): create_table either creates the table, raises
\* "Already Exists", or raises something else; every exception is swallowed.
ensure_table_exists ==
    /\ run.pc = "ensure"
    /\ run' = [run EXCEPT !.pc = AfterEnsure, !.trace = Append(@, Ev("ensure", 0))]
    /\ \/ /\ ~tableExists[CurTable]
          /\ tableExists' = [tableExists EXCEPT ![CurTable] = TRUE]
       \/ /\ tableExists[CurTable]
          /\ UNCHANGED tableExists
       \/ UNCHANGED tableExists
    /\ UNCHANGED <<registry, table, daily, jobs, OtherVars>>

\* clients = db.get_all_clients(); active_clients = [...]; summary = {...}
ReadRegistry ==
    /\ run.pc = "registry"
    /\ \/ LET ac == ActiveClients(get_all_clients(registry), run.platform)
          IN run' = [run EXCEPT !.pc = "loop", !.active_clients = ac, !.i = 1,
                                !.summary = NewSummary(Len(ac)),
                                !.trace = Append(@, Ev("registry", 0))]
       \/ run' = [run EXCEPT !.pc = "raised", !.trace = Append(@, Ev("registry", 0))]
    /\ UNCHANGED <<registry, tableExists, table, daily, jobs, OtherVars>>

\* for client in active_clients: ... ; return summary
LoopNext ==
    /\ run.pc = "loop"
    /\ IF run.i <= Len(run.active_clients)
       THEN run' = [run EXCEPT !.pc = "query", !.trace = DriverSteps(@),
                               !.attempted = Append(@, CurClient.client_name)]
       ELSE run' = [run EXCEPT !.pc = "returned", !.trace = DriverSteps(@)]
    /\ UNCHANGED <<registry, tableExists, table, daily, jobs, OtherVars>>

\* The vendor report request of a per-client sync: raises, or returns a
\* report of n entries.
QueryReport ==
    /\ run.pc = "query"
    /\ \/ \E n \in 0..MaxRows :
            run' = [run EXCEPT !.pc = "flatten", !.insights = n,
                               !.trace = Append(@, Ev("query", CurClient.client_name))]
       \/ run' = ClientFailed(run, "query")
    /\ UNCHANGED <<registry, tableExists, table, daily, jobs, OtherVars>>

\* An empty report returns 0 without a load; otherwise every entry is
\* flattened into a row (a malformed entry raises).
Flatten ==
    /\ run.pc = "flatten"
    /\ \/ /\ run.insights = 0
          /\ run' = ClientSynced(run, 0)
       \/ /\ run.insights > 0
          /\ run' = [run EXCEPT !.pc = "load",
                                !.trace = Append(@, Ev("flatten", CurClient.client_name))]
       \/ /\ run.insights > 0
          /\ run' = ClientFailed(run, "flatten")
    /\ UNCHANGED <<registry, tableExists, table, daily, jobs, OtherVars>>

\* FailedLoad with the first row written before the load raises.
FailedLoad_Partial(old, rows) == old \o SubSeq(rows, 1, 1)

\* What a load job that raises leaves in the table: a load job is atomic.
FailedLoad(old, rows) == old

\* load_table_from_dataframe(...); job.result(); return len(rows).  With the
\* default create disposition a successful load creates a missing table.
LoadRows ==
    /\ run.pc = "load"
    /\ LET rows == FlattenRows(CurClient.client_name, run.insights, jobs, run.caller)
       IN \/ /\ table' = [table EXCEPT ![CurTable] = WriteDisposition(@, rows)]
             /\ tableExists' = [tableExists EXCEPT ![CurTable] = TRUE]
             /\ run' = [ClientSynced(run, Len(rows)) EXCEPT
                          !.trace = Append(@, Ev("load", CurClient.client_name))]
          \/ /\ table' = [table EXCEPT ![CurTable] = FailedLoad(@, rows)]
             /\ run' = ClientFailed(run, "load")
             /\ UNCHANGED tableExists
    /\ UNCHANGED <<registry, daily, jobs, OtherVars>>

(***************************************************************************)
(* Direct calls of a batch driver (the /sync/all-* routes of app.py).      *)
(***************************************************************************)
HttpSyncAll(p) ==
    /\ run.pc = "idle" /\ daily.pc = "idle"
    /\ jobs < MaxJobs
    /\ jobs' = jobs + 1
    /\ run' = StartRun(p, "http")
    /\ UNCHANGED <<registry, tableExists, table, daily, OtherVars>>

HttpRespond ==
    /\ run.caller = "http"
    /\ run.pc \in {"returned", "raised"}
    /\ run' = IdleRun
    /\ UNCHANGED <<registry, tableExists, table, daily, jobs, OtherVars>>

(***************************************************************************)
(* daily_sync_job (sync/scheduler.py), started by the scheduler or by      *)
(* trigger_manual_sync.                                                    *)
(***************************************************************************)
\* DailyPlatforms with a GA4 batch added as a third step.
DailyPlatforms_WithGA4 == <<"google_ads", "meta_ads", "ga4">>

\* The batch drivers daily_sync_job calls, in order.
DailyPlatforms == <<"google_ads", "meta_ads">>

\* results = {'google_ads': {'success': 0, 'failed': 0, 'total_rows': 0}, ...}
InitialEntry == [success |-> 0, failed |-> 0, total_rows |-> 0]

\* results[<platform>]['error'] = str(e)
ErrorEntry == [success |-> 0, failed |-> 0, total_rows |-> 0, error |-> TRUE]

IdleDaily == [pc |-> "idle", k |-> 0, results |-> <<>>, invoked |-> <<>>]

Range(s) == {s[i] : i \in DOMAIN s}

daily_sync_job ==
    /\ run.pc = "idle" /\ daily.pc = "idle"
    /\ jobs < MaxJobs
    /\ jobs' = jobs + 1
    /\ daily' = [pc |-> "running", k |-> 1,
                 results |-> [p \in Range(DailyPlatforms) |-> InitialEntry],
                 invoked |-> <<>>]
    /\ UNCHANGED <<registry, tableExists, table, run, OtherVars>>

\* google_results = sync_google_ads() / meta_results = sync_meta_ads()
DailyCallDriver ==
    /\ daily.pc = "running" /\ run.pc = "idle"
    /\ daily.k <= Len(DailyPlatforms)
    /\ run' = StartRun(DailyPlatforms[daily.k], "daily")
    /\ daily' = [daily EXCEPT !.invoked = Append(@, DailyPlatforms[daily.k])]
    /\ UNCHANGED <<registry, tableExists, table, jobs, OtherVars>>

\* results[<platform>] = <summary>
DailyDriverReturned ==
    /\ run.caller = "daily" /\ run.pc = "returned"
    /\ daily' = [daily EXCEPT !.results[run.platform] = run.summary, !.k = @ + 1]
    /\ run' = IdleRun
    /\ UNCHANGED <<registry, tableExists, table, jobs, OtherVars>>

\* DailyDriverRaised with the driver's exception ending the job.
DailyDriverRaised_Abort ==
    /\ run.caller = "daily" /\ run.pc = "raised"
    /\ daily' = [daily EXCEPT !.results[run.platform] = ErrorEntry, !.pc = "done"]
    /\ run' = IdleRun
    /\ UNCHANGED <<registry, tableExists, table, jobs, OtherVars>>

\* except Exception as e: results[<platform>]['error'] = str(e)
DailyDriverRaised ==
    /\ run.caller = "daily" /\ run.pc = "raised"
    /\ daily' = [daily EXCEPT !.results[run.platform] = ErrorEntry, !.k = @ + 1]
    /\ run' = IdleRun
    /\ UNCHANGED <<registry, tableExists, table, jobs, OtherVars>>

\* return results
DailyReturn ==
    /\ daily.pc = "running" /\ run.pc = "idle"
    /\ daily.k > Len(DailyPlatforms)
    /\ daily' = [daily EXCEPT !.pc = "done"]
    /\ UNCHANGED <<registry, tableExists, table, run, jobs, OtherVars>>

\* The caller (scheduler thread or trigger_manual_sync) takes the results.
DailyFinish ==
    /\ daily.pc = "done"
    /\ daily' = IdleDaily
    /\ UNCHANGED <<registry, tableExists, table, run, jobs, OtherVars>>

(***************************************************************************)
(* Scheduler (sync/scheduler.py).  Time is counted in whole hours since    *)
(* midnight of day 0.                                                      *)
(***************************************************************************)
CronHour == 8
IntervalHours == 6

\* Values of the environment variable ENABLE_FREQUENT_SYNC (None: unset).
EnvValues == {None, "false", "true", "TRUE", "True", "1"}

\* str.lower()
Lower(v) == IF v \in {"TRUE", "True"} THEN "true" ELSE v

\* FrequentSyncEnabled as a truthiness test of the variable.
FrequentSyncEnabled_AnyValue(e) == e # None

\* os.environ.get('ENABLE_FREQUENT_SYNC', 'false').lower() == 'true'
FrequentSyncEnabled(e) == Lower(IF e = None THEN "false" ELSE e) = "true"

NoScheduler == [initialized |-> FALSE, jobs |-> {}, started |-> 0]

\* CronTrigger(hour=8, minute=0)
CronDue(t) == t % 24 = CronHour

\* 'interval', hours=6: every 6 hours counted from the scheduler's start
IntervalDue(started, t) == t > started /\ (t - started) % IntervalHours = 0

\* Called once, at application start.
init_scheduler ==
    /\ ~scheduler.initialized
    /\ scheduler' = [initialized |-> TRUE,
                     jobs |-> {"daily_sync"} \cup
                              (IF FrequentSyncEnabled(env) THEN {"frequent_sync"} ELSE {}),
                     started |-> clock]
    /\ UNCHANGED <<BatchVars, env, clock, fired, tok, dbcall, kpi, execs, ins, flat>>

\* The function a registered job runs: both jobs run daily_sync_job.
JobFunc(id) ==
    CASE id = "daily_sync"    -> "daily_sync_job"
      [] id = "frequent_sync" -> "daily_sync_job"

\* The jobs the scheduler fires when the clock reaches hour t.
DueJobs(t) ==
    (IF "daily_sync" \in scheduler.jobs /\ CronDue(t)
       THEN <<[id |-> "daily_sync", at |-> t]>> ELSE <<>>)
    \o (IF "frequent_sync" \in scheduler.jobs /\ IntervalDue(scheduler.started, t)
       THEN <<[id |-> "frequent_sync", at |-> t]>> ELSE <<>>)

\* One hour passes; the scheduler fires daily_sync_job for every due job.  A
\* firing is recorded in `fired`; the body of the fired job is the step
\* sequence that starts at daily_sync_job.
Tick ==
    /\ clock < MaxDays * 24
    /\ clock' = clock + 1
    /\ fired' = fired \o DueJobs(clock + 1)
    /\ UNCHANGED <<BatchVars, scheduler, env, tok, dbcall, kpi, execs, ins, flat>>

(***************************************************************************)
(* Registry calls (db.py): insert_client and update_client.  A row's       *)
(* client_id is its position in the registry; dbcall holds the latest call *)
(* and what it returned.                                                   *)
(***************************************************************************)
\* What a registry call returned: whether it returned at all (or raised), the
\* client_id of insert_client and the boolean of update_client.
Returned(client_id, updated) == [ok |-> TRUE, client_id |-> client_id, updated |-> updated]
Raised == [ok |-> FALSE, client_id |-> 0, updated |-> FALSE]

NoCall == [op |-> None, client |-> 0, data |-> None, result |-> Raised]

\* The platform whose identifier column the modelled callers fill in.
DbPlatform == "meta_ads"

\* What insert_client is called with: whether the required fields are there,
\* a caller-supplied 'active' value and an identifier.
InsertData == [required : BOOLEAN, active : BOOLEAN, id : {None, "acct"}]

\* InsertedRow with the caller's 'active' value stored.
InsertedRow_CallerActive(reg, data) ==
    MkRow(Len(reg) + 1, [active |-> data.active, id |-> data.id], DbPlatform)

\* insert_data = {..., 'active': True}: the row insert_client stores.
InsertedRow(reg, data) ==
    MkRow(Len(reg) + 1, [active |-> TRUE, id |-> data.id], DbPlatform)

\* insert_client(data): ValueError when a required field is missing; the
\* INSERT may fail; otherwise the row is stored and its client_id returned.
insert_client ==
    /\ Len(registry) < MaxClients
    /\ \E data \in InsertData :
          \/ /\ data.required
             /\ registry' = Append(registry, InsertedRow(registry, data))
             /\ dbcall' = [op |-> "insert", client |-> 0, data |-> data,
                           result |-> Returned(Len(registry) + 1, FALSE)]
          \/ /\ registry' = registry
             /\ dbcall' = [op |-> "insert", client |-> 0, data |-> data,
                           result |-> Raised]
    /\ UNCHANGED <<tableExists, table, run, daily, jobs, SchedVars, tok, kpi, execs, ins, flat>>

\* What update_client is called with: no column, or one column and its value.
UpdateData ==
    {[col |-> None, val |-> None]}
           \cup {[col |-> "active", val |-> a] : a \in BOOLEAN}
           \cup {[col |-> IdField(DbPlatform), val |-> v] : v \in {None, "acct"}}

\* UPDATE clients SET <col> = <val> WHERE client_id = <client_id>
UpdateRow(reg, client_id, data) ==
    IF client_id \in DOMAIN reg
      THEN [reg EXCEPT ![client_id][data.col] = data.val]
      ELSE reg

\* update_client(client_id, data): ValueError when data is empty; the UPDATE
\* may fail; otherwise returns whether a row was updated.
update_client ==
    \E client_id \in 1..MaxClients, data \in UpdateData :
       /\ \/ /\ data.col # None
             /\ registry' = UpdateRow(registry, client_id, data)
             /\ dbcall' = [op |-> "update", client |-> client_id, data |-> data,
                           result |-> Returned(0, client_id \in DOMAIN registry)]
          \/ /\ registry' = registry
             /\ dbcall' = [op |-> "update", client |-> client_id, data |-> data,
                           result |-> Raised]
       /\ UNCHANGED <<tableExists, table, run, daily, jobs, SchedVars, tok, kpi, execs, ins, flat>>

(***************************************************************************)
(* Derived KPIs of the per-client syncs.  Python's true division is        *)
(* modelled exactly, on fractions n/d in lowest terms; dividing by zero    *)
(* raises ZeroDivisionError, which `err` records.                          *)
(***************************************************************************)
MaxMetric == 2

RECURSIVE GCD(_, _)
GCD(a, b) == IF b = 0 THEN a ELSE GCD(b, a % b)

Frac(n, d) == [n |-> n \div GCD(n, d), d |-> d \div GCD(n, d), err |-> FALSE]
ZeroDivisionError == [n |-> 0, d |-> 1, err |-> TRUE]

\* x / y
Div(x, y) ==
    IF x.err \/ y.err \/ y.n = 0 THEN ZeroDivisionError
    ELSE Frac(x.n * y.d, x.d * y.n)

\* x * k
Times(x, k) == IF x.err THEN x ELSE Frac(x.n * k, x.d)

\* The literal 0 of an else branch.
Zero == Frac(0, 1)

\* The metrics of one report entry.
Metrics ==
    [impressions : 0..MaxMetric, clicks : 0..MaxMetric, cost : 0..MaxMetric,
     conversions : 0..MaxMetric, value : 0..MaxMetric]

\* cost = row.metrics.cost_micros / 1_000_000
GoogleCost(m) == Div(Frac(m.cost, 1), Frac(1000000, 1))

\* ctr = (clicks / impressions * 100) if impressions > 0 else 0
GoogleCTR(m) ==
    IF m.impressions > 0
      THEN Times(Div(Frac(m.clicks, 1), Frac(m.impressions, 1)), 100) ELSE Zero

\* GoogleCPC guarded by the impressions instead of the clicks.
GoogleCPC_GuardImpressions(m) ==
    IF m.impressions > 0 THEN Div(GoogleCost(m), Frac(m.clicks, 1)) ELSE Zero

\* cpc = (cost / clicks) if clicks > 0 else 0
GoogleCPC(m) ==
    IF m.clicks > 0 THEN Div(GoogleCost(m), Frac(m.clicks, 1)) ELSE Zero

\* cpm = (cost / impressions * 1000) if impressions > 0 else 0
GoogleCPM(m) ==
    IF m.impressions > 0
      THEN Times(Div(GoogleCost(m), Frac(m.impressions, 1)), 1000) ELSE Zero

\* cpa = (cost / conversions) if conversions > 0 else 0
GoogleCPA(m) ==
    IF m.conversions > 0 THEN Div(GoogleCost(m), Frac(m.conversions, 1)) ELSE Zero

\* roas = (conversions_value / cost) if cost > 0 else 0
GoogleROAS(m) ==
    IF GoogleCost(m).n > 0 THEN Div(Frac(m.value, 1), GoogleCost(m)) ELSE Zero

\* TikTok: cpa = (spend / conversions) if conversions > 0 else 0
TikTokCPA(m) ==
    IF m.conversions > 0 THEN Div(Frac(m.cost, 1), Frac(m.conversions, 1)) ELSE Zero

\* Meta: roas = (purchase_value / spend) if spend > 0 else 0
MetaROAS(m) ==
    IF m.cost > 0 THEN Div(Frac(m.value, 1), Frac(m.cost, 1)) ELSE Zero

\* The KPIs each platform's sync computes itself (the others come from the vendor).
DerivedKPIs(p, m) ==
    CASE p = "google_ads" ->
             [ctr |-> GoogleCTR(m), cpc |-> GoogleCPC(m), cpm |-> GoogleCPM(m),
              cpa |-> GoogleCPA(m), roas |-> GoogleROAS(m)]
      [] p = "tiktok_ads" -> [cpa |-> TikTokCPA(m)]
      [] p = "meta_ads"   -> [roas |-> MetaROAS(m)]

NoKpi == [pc |-> "idle", platform |-> None, m |-> None, out |-> <<>>]

\* The derived-KPI computation of one row: it raises when a division does.
ComputeKPIs ==
    /\ kpi.pc = "entry"
    /\ LET out == DerivedKPIs(kpi.platform, kpi.m) IN
       kpi' = [kpi EXCEPT !.out = out,
                          !.pc = IF \E k \in DOMAIN out : out[k].err
                                   THEN "raised" ELSE "computed"]
    /\ UNCHANGED <<BatchVars, SchedVars, tok, dbcall, execs, ins, flat>>

\* 'ctr': round(ctr, 2), ...: the row is appended to the sync's rows.
AppendKPIRow ==
    /\ kpi.pc = "computed"
    /\ kpi' = [kpi EXCEPT !.pc = "done"]
    /\ UNCHANGED <<BatchVars, SchedVars, tok, dbcall, execs, ins, flat>>

(***************************************************************************)
(* Overlapping executions of daily_sync_job: the scheduler's thread runs   *)
(* one, a caller of trigger_manual_sync another.  Each execution has its   *)
(* own locals (results, the driver's sync object, clients and summary);    *)
(* the registry and the warehouse are what they share.  The steps of an    *)
(* execution are cut where it reads or writes shared state.                *)
(***************************************************************************)
Executions == {"scheduled", "manual"}

IdleExecution ==
    [pc |-> "idle", k |-> 0, results |-> <<>>, active_clients |-> <<>>,
     i |-> 0, summary |-> NewSummary(0)]

NoExecutions == [e \in Executions |-> IdleExecution]

\* The rest of the state, which an execution's step leaves alone.
OutsideExecs == <<registry, run, daily, jobs, SchedVars, tok, dbcall, kpi, ins, flat>>

\* The platform whose driver execution e is in.
ExecPlatform(e) == DailyPlatforms[execs[e].k]

\* daily_sync_job(): results = {...}
ExecStart(e) ==
    /\ execs[e].pc = "idle"
    /\ execs' = [execs EXCEPT ![e] =
                    [IdleExecution EXCEPT !.pc = "running", !.k = 1,
                        !.results = [p \in Range(DailyPlatforms) |-> InitialEntry]]]
    /\ UNCHANGED <<tableExists, table, OutsideExecs>>

\* The next driver up to its summary: the sync object is set up, the table
\* ensured and the registry read; when that raises, daily_sync_job records
\* the error and goes on.
ExecDriverStart(e) ==
    /\ execs[e].pc = "running"
    /\ execs[e].k <= Len(DailyPlatforms)
    /\ LET p == ExecPlatform(e)
           ac == ActiveClients(get_all_clients(registry), p) IN
       \/ /\ execs' = [execs EXCEPT ![e].pc = "loop", ![e].active_clients = ac,
                                    ![e].i = 1, ![e].summary = NewSummary(Len(ac))]
          /\ \/ tableExists' = [tableExists EXCEPT ![TableOf(p)] = TRUE]
             \/ UNCHANGED tableExists
       \/ /\ execs' = [execs EXCEPT ![e].results[p] = ErrorEntry, ![e].k = @ + 1]
          /\ \/ tableExists' = [tableExists EXCEPT ![TableOf(p)] = TRUE]
             \/ UNCHANGED tableExists
    /\ UNCHANGED <<table, OutsideExecs>>

\* One client's sync inside the driver's loop: it raises (before or in the
\* load) and is tallied as failed, or returns the number of rows it loaded.
ExecSyncClient(e) ==
    /\ execs[e].pc = "loop"
    /\ execs[e].i <= Len(execs[e].active_clients)
    /\ LET t == TableOf(ExecPlatform(e))
           c == execs[e].active_clients[execs[e].i].client_name IN
       \/ /\ execs' = [execs EXCEPT ![e].summary = TallyFailure(@), ![e].i = @ + 1]
          /\ UNCHANGED <<table, tableExists>>
       \/ /\ execs' = [execs EXCEPT ![e].summary = TallySuccess(@, 0), ![e].i = @ + 1]
          /\ UNCHANGED <<table, tableExists>>
       \/ \E n \in 1..MaxRows :
            LET rows == FlattenRows(c, n, 1, e) IN
            \/ /\ table' = [table EXCEPT ![t] = WriteDisposition(@, rows)]
               /\ tableExists' = [tableExists EXCEPT ![t] = TRUE]
               /\ execs' = [execs EXCEPT ![e].summary = TallySuccess(@, Len(rows)),
                                         ![e].i = @ + 1]
            \/ /\ table' = [table EXCEPT ![t] = FailedLoad(@, rows)]
               /\ execs' = [execs EXCEPT ![e].summary = TallyFailure(@), ![e].i = @ + 1]
               /\ UNCHANGED tableExists
    /\ UNCHANGED OutsideExecs

\* return summary; results[<platform>] = <summary>
ExecDriverReturn(e) ==
    /\ execs[e].pc = "loop"
    /\ execs[e].i > Len(execs[e].active_clients)
    /\ execs' = [execs EXCEPT ![e].results[ExecPlatform(e)] = execs[e].summary,
                              ![e].k = @ + 1, ![e].pc = "running"]
    /\ UNCHANGED <<tableExists, table, OutsideExecs>>

\* return results
ExecReturn(e) ==
    /\ execs[e].pc = "running"
    /\ execs[e].k > Len(DailyPlatforms)
    /\ execs' = [execs EXCEPT ![e].pc = "done"]
    /\ UNCHANGED <<tableExists, table, OutsideExecs>>

\* The steps of execution e.
ExecNext(e) ==
    \/ ExecStart(e)
    \/ ExecDriverStart(e)
    \/ ExecSyncClient(e)
    \/ ExecDriverReturn(e)
    \/ ExecReturn(e)

(***************************************************************************)
(* Meta insights paging (sync/meta_sync.py): get_account_insights, the     *)
(* sync_account_data call around it and the driver's tally of the account. *)
(* The vendor answers the successive page requests with a script.          *)
(***************************************************************************)
MaxPages == 3

\* A 200 response carrying n entries and maybe a paging.next link.
Page(n, next) == [kind |-> "page", n |-> n, next |-> next]
\* A response whose status is not 200.
ErrorResponse == [kind |-> "error", n |-> 0, next |-> FALSE]
\* requests.Timeout
TimeoutResponse == [kind |-> "timeout", n |-> 0, next |-> FALSE]

LinkedPages == {Page(n, TRUE) : n \in 0..MaxRows}
LastResponses == {Page(n, FALSE) : n \in 0..MaxRows} \cup {ErrorResponse, TimeoutResponse}

\* What the vendor answers: pages linked by paging.next, ended by a page
\* without a next link, a non-200 response or a timeout.
Scripts ==
    UNION {{sc \in [1..n -> LinkedPages \cup LastResponses] :
                /\ \A j \in 1..(n - 1) : sc[j] \in LinkedPages
                /\ sc[n] \in LastResponses}
           : n \in 1..MaxPages}

\* data.get('data', []) of page j: its entries.
PageData(j, n) == [k \in 1..n |-> [page |-> j, k |-> k]]

\* Extend with the page's data replacing what was collected.
Extend_Replace(all_data, data) == data

\* all_data.extend(data.get('data', []))
Extend(all_data, data) == all_data \o data

\* OnTimeout with the timeout propagating to the caller.
OnTimeout_Raise == "raised"

\* except requests.Timeout: ...; break  -- the loop ends and all_data is returned
OnTimeout == "returned"

NoInsights ==
    [pc |-> "idle", script |-> <<>>, page |-> 0, all_data |-> <<>>,
     timed_out |-> FALSE, raised_at |-> None, returned |-> 0,
     summary |-> NewSummary(0)]

\* One turn of `while url:` in get_account_insights: the request of page
\* ins.page and what the loop does with the response.
FetchPage ==
    /\ ins.pc = "fetch"
    /\ LET resp == ins.script[ins.page] IN
       ins' = CASE resp.kind = "error" ->
                     [ins EXCEPT !.pc = "raised", !.raised_at = "insights"]
                [] resp.kind = "timeout" ->
                     [ins EXCEPT !.pc = OnTimeout, !.timed_out = TRUE]
                [] resp.kind = "page" ->
                     [ins EXCEPT !.all_data = Extend(@, PageData(ins.page, resp.n)),
                                 !.page = IF resp.next THEN @ + 1 ELSE @,
                                 !.pc = IF resp.next THEN "fetch" ELSE "returned"]
    /\ UNCHANGED <<BatchVars, SchedVars, tok, dbcall, kpi, execs, flat>>

\* sync_account_data after get_account_insights returned: no insights, return
\* 0; else a row per insight is built (a malformed insight raises) and the
\* rows are loaded, which appends them all or raises.
ProcessInsights ==
    /\ ins.pc = "returned"
    /\ LET rows == FlattenRows(1, Len(ins.all_data), 1, "http")
           t == TableOf("meta_ads") IN
       IF ins.all_data = <<>>
         THEN /\ ins' = [ins EXCEPT !.pc = "synced", !.returned = 0]
              /\ UNCHANGED <<table, tableExists>>
         ELSE \/ /\ ins' = [ins EXCEPT !.pc = "raised", !.raised_at = "flatten"]
                 /\ UNCHANGED <<table, tableExists>>
              \/ /\ table' = [table EXCEPT ![t] = WriteDisposition(@, rows)]
                 /\ tableExists' = [tableExists EXCEPT ![t] = TRUE]
                 /\ ins' = [ins EXCEPT !.pc = "synced", !.returned = Len(rows)]
              \/ /\ table' = [table EXCEPT ![t] = FailedLoad(@, rows)]
                 /\ ins' = [ins EXCEPT !.pc = "raised", !.raised_at = "load"]
                 /\ UNCHANGED tableExists
    /\ UNCHANGED <<registry, run, daily, jobs, SchedVars, tok, dbcall, kpi, execs, flat>>

\* The driver's loop body around the account's sync: tally the rows it
\* returned, or the failure when it raised.
TallyAccount ==
    /\ ins.pc \in {"synced", "raised"}
    /\ ins' = [ins EXCEPT !.pc = "tallied",
                          !.summary = IF ins.pc = "synced"
                                        THEN TallySuccess(@, ins.returned)
                                        ELSE TallyFailure(@)]
    /\ UNCHANGED <<BatchVars, SchedVars, tok, dbcall, kpi, execs, flat>>

(***************************************************************************)
(* Meta token manager (sync/meta_token_manager.py).  The vendor holds, for *)
(* every token, what debug_token reports about it; a call of debug_token   *)
(* may also fail.                                                          *)
(***************************************************************************)
MaxDaysLeft == 3

\* validate_token results.
InvalidInfo == [valid |-> FALSE, expires_at |-> None, days_left |-> None]
NeverExpires == [valid |-> TRUE, expires_at |-> "never", days_left |-> None]
ExpiresIn(d) == [valid |-> TRUE, expires_at |-> "date", days_left |-> d]

\* What the vendor reports about the configured token.
CurrentTokenInfos == {InvalidInfo, NeverExpires} \cup {ExpiresIn(d) : d \in 0..MaxDaysLeft}

\* What the vendor reports about a token it issued in an exchange.
NewTokenInfos == {InvalidInfo, ExpiresIn(MaxDaysLeft)}

\* if not token: token = self.current_token
TokenToValidate(token) == IF Truthy(token) THEN token ELSE tok.current_token

\* The results validate_token(token) can return: what the vendor reports
\* about the token it asked about, or invalid when the request failed.
validate_token(vendor, token) == {vendor[TokenToValidate(token)], InvalidInfo}

\* if days_left <= days_threshold:
RefreshDue(days_left, days_threshold) == days_left <= days_threshold

\* The values exchange_for_long_lived_token can return on a 200 response:
\* data.get('access_token'), which is None when the body holds no token.
ExchangedTokens == {None, "new"}

\* The number of calls of auto_refresh_if_needed that are followed.
MaxCalls == 2

\* The values a token can take besides None: the configured one and those an
\* exchange can issue.
TokenValues == {"current", "new", "other"}

\* HiddenToken with the token itself put into the returned record.
HiddenToken_Plain(new_token) == new_token

\* 'new_token': '***HIDDEN***'
HiddenToken(new_token) == "***HIDDEN***"

\* The keys of the record returned with action token_refreshed, besides
\* success and action.
RefreshedFields(days_left, new_token, new_token_info) ==
    [old_expires_in |-> days_left,
     new_expires_in |-> new_token_info.days_left,
     new_token |-> HiddenToken(new_token),
     update_required |-> TRUE]

NoFields ==
    [old_expires_in |-> None, new_expires_in |-> None,
     new_token |-> None, update_required |-> FALSE]

\* The row save_new_token(new_token) inserts into token_history (created_at,
\* the time of the insert, is left out).
TokenHistoryRow(new_token) ==
    [service |-> "meta_ads", token_hash |-> "token_hash_placeholder",
     expires_at |-> None, status |-> "active"]

\* The token the manager holds after a refresh: nothing assigns
\* self.current_token or META_ACCESS_TOKEN.
TokenAfterRefresh_Adopt(current_token, new_token) == new_token

TokenAfterRefresh(current_token, new_token) == current_token

\* The fields of a call (pc .. payload) and those that outlive it: the
\* manager's token, the token_history table, the tokens handed to the
\* exchange endpoint, and the number of earlier calls that reported
\* token_refreshed.
IdleToken ==
    [pc |-> "idle", days_threshold |-> 0,
     vendor |-> [current |-> InvalidInfo, new |-> InvalidInfo],
     token_info |-> InvalidInfo, exchanges |-> 0, new_token |-> None,
     validated |-> <<>>, new_token_info |-> InvalidInfo,
     saved |-> FALSE, result |-> None, payload |-> NoFields,
     current_token |-> "current", calls |-> 0, history |-> <<>>,
     exchanged |-> <<>>, refreshes |-> 0]

\* Return values of auto_refresh_if_needed.
ManualRefreshNeeded == [success |-> FALSE, action |-> "manual_refresh_needed"]
NoRefreshNeeded == [success |-> TRUE, action |-> "no_refresh_needed"]
TokenRefreshed == [success |-> TRUE, action |-> "token_refreshed"]

\* SaveFailed with the exception of save_new_token reaching the except
\* clause of auto_refresh_if_needed.
SaveFailed_Propagate(refreshed) == ManualRefreshNeeded

\* save_new_token's except clause logs a warning and returns: the caller
\* goes on to report the refresh.
SaveFailed(refreshed) == refreshed

\* auto_refresh_if_needed(days_threshold): token_info = self.validate_token()
auto_refresh_if_needed ==
    /\ tok.pc = "called"
    /\ \E info \in validate_token(tok.vendor, None) :
          tok' = [tok EXCEPT !.pc = "check", !.token_info = info,
                             !.validated = Append(@, TokenToValidate(None))]
    /\ UNCHANGED <<BatchVars, SchedVars, dbcall, kpi, execs, ins, flat>>

\* The three tests on token_info that precede the exchange.
CheckToken ==
    /\ tok.pc = "check"
    /\ tok' = IF ~tok.token_info.valid
                THEN [tok EXCEPT !.pc = "returned", !.result = ManualRefreshNeeded]
              ELSE IF tok.token_info.expires_at = "never"
                THEN [tok EXCEPT !.pc = "returned", !.result = NoRefreshNeeded]
              ELSE IF RefreshDue(tok.token_info.days_left, tok.days_threshold)
                THEN [tok EXCEPT !.pc = "exchange"]
              ELSE [tok EXCEPT !.pc = "returned", !.result = NoRefreshNeeded]
    /\ UNCHANGED <<BatchVars, SchedVars, dbcall, kpi, execs, ins, flat>>

\* new_token = self.exchange_for_long_lived_token(self.current_token): raises
\* on a failed request or a non-200 response, else returns the body's token.
exchange_for_long_lived_token ==
    /\ tok.pc = "exchange"
    /\ \/ \E t \in ExchangedTokens :
            tok' = [tok EXCEPT !.pc = "validate_new", !.new_token = t,
                               !.exchanges = @ + 1,
                               !.exchanged = Append(@, tok.current_token)]
       \/ tok' = [tok EXCEPT !.pc = "returned", !.exchanges = @ + 1,
                             !.exchanged = Append(@, tok.current_token),
                             !.result = ManualRefreshNeeded]
    /\ UNCHANGED <<BatchVars, SchedVars, dbcall, kpi, execs, ins, flat>>

\* new_token_info = self.validate_token(new_token); if it is valid,
\* save_new_token(new_token) inserts a row into token_history, or fails to,
\* and the refresh is reported; else a manual refresh is asked for.
ValidateNewToken ==
    /\ tok.pc = "validate_new"
    /\ \E info \in validate_token(tok.vendor, tok.new_token), inserted \in BOOLEAN :
          LET refreshed == TokenRefreshed
              result == IF inserted THEN refreshed ELSE SaveFailed(refreshed)
          IN
          tok' = IF info.valid
                   THEN [tok EXCEPT
                           !.pc = "returned", !.new_token_info = info,
                           !.validated = Append(@, TokenToValidate(tok.new_token)),
                           !.saved = inserted,
                           !.history = IF inserted
                                         THEN Append(@, TokenHistoryRow(tok.new_token))
                                         ELSE @,
                           !.current_token = TokenAfterRefresh(@, tok.new_token),
                           !.result = result,
                           !.payload = IF result = TokenRefreshed
                                         THEN RefreshedFields(tok.token_info.days_left,
                                                              tok.new_token, info)
                                         ELSE NoFields]
                   ELSE [tok EXCEPT
                           !.pc = "returned", !.new_token_info = info,
                           !.validated = Append(@, TokenToValidate(tok.new_token)),
                           !.result = ManualRefreshNeeded]
    /\ UNCHANGED <<BatchVars, SchedVars, dbcall, kpi, execs, ins, flat>>

\* A later call of auto_refresh_if_needed, by the same manager or by one
\* that scheduled_token_refresh builds anew from META_ACCESS_TOKEN.
NextCall ==
    /\ tok.pc = "returned"
    /\ tok.calls < MaxCalls
    /\ tok' = [tok EXCEPT !.pc = "called", !.calls = @ + 1,
                          !.refreshes = IF tok.result = TokenRefreshed THEN @ + 1 ELSE @,
                          !.token_info = InvalidInfo, !.exchanges = 0,
                          !.new_token = None, !.validated = <<>>,
                          !.new_token_info = InvalidInfo, !.saved = FALSE,
                          !.result = None, !.payload = NoFields]
    /\ UNCHANGED <<BatchVars, SchedVars, dbcall, kpi, execs, ins, flat>>

(***************************************************************************)
(* Flattening of a Meta insight's actions array (sync/meta_sync.py,        *)
(* sync_account_data).  An action value is a decimal string; values are    *)
(* kept in units of 1/ValueScale, so that float(value) and int(value)      *)
(* differ.                                                                 *)
(***************************************************************************)
MaxActions == 2
MaxValue == 3
ValueScale == 2

ActionTypes ==
    {"link_click", "landing_page_view", "add_to_cart", "omni_add_to_cart",
     "purchase", "omni_purchase", "lead", "complete_registration",
     "post_engagement"}

\* The actions arrays of an insight.
ActionArrays ==
    UNION {[1..n -> [action_type : ActionTypes, value : 0..MaxValue]] : n \in 0..MaxActions}

\* int(value) of a value held in units of 1/ValueScale.
ToInt(value) == value \div ValueScale

Max(a, b) == IF a >= b THEN a ELSE b

\* if action_type in ['purchase', 'lead', 'complete_registration', 'add_to_cart']:
ConversionTypes == {"purchase", "lead", "complete_registration", "add_to_cart"}

NoMetaRow ==
    [link_clicks |-> 0, landing_page_views |-> 0, add_to_cart |-> 0,
     purchases |-> 0, conversions |-> 0]

\* link_clicks = 0 ... total_conversions = 0 (no outbound_clicks entry).
NoFlatten ==
    [pc |-> "idle", actions |-> <<>>, i |-> 0,
     link_clicks |-> 0, landing_page_views |-> 0, add_to_cart |-> 0,
     purchases |-> 0, total_conversions |-> 0, row |-> NoMetaRow]

\* One pass of `for action in actions:`.
ParseAction ==
    /\ flat.pc = "actions"
    /\ flat.i <= Len(flat.actions)
    /\ LET action_type == flat.actions[flat.i].action_type
           value == flat.actions[flat.i].value
           f1 == IF action_type = "link_click"
                   THEN [flat EXCEPT !.link_clicks = Max(@, ToInt(value))]
                 ELSE IF action_type = "landing_page_view"
                   THEN [flat EXCEPT !.landing_page_views = ToInt(value)]
                 ELSE IF action_type \in {"add_to_cart", "omni_add_to_cart"}
                   THEN [flat EXCEPT !.add_to_cart = ToInt(value)]
                 ELSE IF action_type \in {"purchase", "omni_purchase"}
                   THEN [flat EXCEPT !.purchases = ToInt(value)]
                 ELSE flat
           f2 == IF action_type \in ConversionTypes
                   THEN [f1 EXCEPT !.total_conversions = @ + value]
                 ELSE f1
       IN flat' = [f2 EXCEPT !.i = @ + 1]
    /\ UNCHANGED <<BatchVars, SchedVars, tok, dbcall, kpi, execs, ins>>

\* rows.append({...}) with the fields the actions loop computed
\* (conversions in units of 1/ValueScale).
AppendMetaRow ==
    /\ flat.pc = "actions"
    /\ flat.i > Len(flat.actions)
    /\ flat' = [flat EXCEPT !.pc = "appended",
                            !.row = [link_clicks |-> flat.link_clicks,
                                     landing_page_views |-> flat.landing_page_views,
                                     add_to_cart |-> flat.add_to_cart,
                                     purchases |-> flat.purchases,
                                     conversions |-> flat.total_conversions]]
    /\ UNCHANGED <<BatchVars, SchedVars, tok, dbcall, kpi, execs, ins>>

(***************************************************************************)
(* Specifications.                                                         *)
(***************************************************************************)
\* A table that exists already holds this row of an earlier run.
LegacyRow == [client |-> 0, job |-> 0, by |-> "earlier", k |-> 1]

\* Batch drivers and the daily job over a registry; the warehouse tables are
\* absent, empty, or hold a row of an earlier run.
Init ==
    /\ flat = NoFlatten
    /\ \E p \in Platforms : registry \in Registries(p)
    /\ \E w \in {"absent", "empty", "rows"} :
         /\ tableExists = [t \in Tables |-> w # "absent"]
         /\ table = [t \in Tables |-> IF w = "rows" THEN <<LegacyRow>> ELSE <<>>]
    /\ run = IdleRun
    /\ daily = IdleDaily
    /\ jobs = 0
    /\ scheduler = NoScheduler
    /\ env = None
    /\ clock = 0
    /\ fired = <<>>
    /\ tok = IdleToken
    /\ dbcall = NoCall
    /\ kpi = NoKpi
    /\ execs = NoExecutions
    /\ ins = NoInsights

Next ==
    \/ \E p \in Platforms : HttpSyncAll(p)
    \/ HttpRespond
    \/ setup_clients
    \/ ensure_table_exists
    \/ ReadRegistry
    \/ LoopNext
    \/ QueryReport
    \/ Flatten
    \/ LoadRows
    \/ daily_sync_job
    \/ DailyCallDriver
    \/ DailyDriverReturned
    \/ DailyDriverRaised
    \/ DailyReturn
    \/ DailyFinish

Spec == Init /\ [][Next]_vars

\* The scheduler and the clock, for every value of ENABLE_FREQUENT_SYNC and
\* every start hour.
InitSched ==
    /\ flat = NoFlatten
    /\ registry = <<>>
    /\ tableExists = [t \in Tables |-> FALSE]
    /\ table = [t \in Tables |-> <<>>]
    /\ run = IdleRun
    /\ daily = IdleDaily
    /\ jobs = 0
    /\ scheduler = NoScheduler
    /\ env \in EnvValues
    /\ clock \in 0..23
    /\ fired = <<>>
    /\ tok = IdleToken
    /\ dbcall = NoCall
    /\ kpi = NoKpi
    /\ execs = NoExecutions
    /\ ins = NoInsights

NextSched == init_scheduler \/ Tick

SpecSched == InitSched /\ [][NextSched]_vars

\* Calls of auto_refresh_if_needed, for every threshold and everything the
\* vendor may report about the configured token and about an exchanged one.
InitToken ==
    /\ flat = NoFlatten
    /\ registry = <<>>
    /\ tableExists = [t \in Tables |-> FALSE]
    /\ table = [t \in Tables |-> <<>>]
    /\ run = IdleRun
    /\ daily = IdleDaily
    /\ jobs = 0
    /\ scheduler = NoScheduler
    /\ env = None
    /\ clock = 0
    /\ fired = <<>>
    /\ dbcall = NoCall
    /\ kpi = NoKpi
    /\ execs = NoExecutions
    /\ ins = NoInsights
    /\ \E T \in 0..MaxDaysLeft, c \in CurrentTokenInfos, n \in NewTokenInfos :
          tok = [IdleToken EXCEPT !.pc = "called", !.calls = 1,
                                  !.days_threshold = T,
                                  !.vendor = [current |-> c, new |-> n]]

NextToken ==
    \/ auto_refresh_if_needed
    \/ CheckToken
    \/ exchange_for_long_lived_token
    \/ ValidateNewToken
    \/ NextCall

SpecToken == InitToken /\ [][NextToken]_vars

\* insert_client and update_client calls in any order, from an empty registry.
InitDb ==
    /\ flat = NoFlatten
    /\ registry = <<>>
    /\ tableExists = [t \in Tables |-> TRUE]
    /\ table = [t \in Tables |-> <<>>]
    /\ run = IdleRun
    /\ daily = IdleDaily
    /\ jobs = 0
    /\ scheduler = NoScheduler
    /\ env = None
    /\ clock = 0
    /\ fired = <<>>
    /\ tok = IdleToken
    /\ dbcall = NoCall
    /\ kpi = NoKpi
    /\ execs = NoExecutions
    /\ ins = NoInsights

NextDb == insert_client \/ update_client

SpecDb == InitDb /\ [][NextDb]_vars

\* The derived KPIs of one report entry, for every platform that computes
\* some and all non-negative metric values up to MaxMetric.
InitKpi ==
    /\ flat = NoFlatten
    /\ registry = <<>>
    /\ tableExists = [t \in Tables |-> FALSE]
    /\ table = [t \in Tables |-> <<>>]
    /\ run = IdleRun
    /\ daily = IdleDaily
    /\ jobs = 0
    /\ scheduler = NoScheduler
    /\ env = None
    /\ clock = 0
    /\ fired = <<>>
    /\ tok = IdleToken
    /\ dbcall = NoCall
    /\ execs = NoExecutions
    /\ ins = NoInsights
    /\ \E p \in {"google_ads", "tiktok_ads", "meta_ads"}, m \in Metrics :
          kpi = [pc |-> "entry", platform |-> p, m |-> m, out |-> <<>>]

NextKpi == ComputeKPIs \/ AppendKPIRow

SpecKpi == InitKpi /\ [][NextKpi]_vars

\* The registries of 1..MaxClients active clients of platform p.
ActiveRegistries(p) ==
    {[i \in 1..n |-> MkRow(i, [active |-> TRUE, id |-> "acct"], p)] : n \in 1..MaxClients}

\* A scheduled and a manual execution of daily_sync_job, in any interleaving,
\* over a registry of active clients and empty tables.
InitConc ==
    /\ flat = NoFlatten
    /\ \E p \in Range(DailyPlatforms) : registry \in ActiveRegistries(p)
    /\ tableExists = [t \in Tables |-> TRUE]
    /\ table = [t \in Tables |-> <<>>]
    /\ run = IdleRun
    /\ daily = IdleDaily
    /\ jobs = 0
    /\ scheduler = NoScheduler
    /\ env = None
    /\ clock = 0
    /\ fired = <<>>
    /\ tok = IdleToken
    /\ dbcall = NoCall
    /\ kpi = NoKpi
    /\ execs = NoExecutions
    /\ ins = NoInsights

NextConc == \E e \in Executions : ExecNext(e)

SpecConc == InitConc /\ [][NextConc]_vars

\* The sync of one active Meta account inside sync_all_meta_accounts, for
\* every script of vendor answers.  Each step is sequential code that runs
\* once the pending request has answered or timed out (timeout=60), hence
\* the fairness.
InitMeta ==
    /\ flat = NoFlatten
    /\ registry = <<MkRow(1, [active |-> TRUE, id |-> "acct"], "meta_ads")>>
    /\ tableExists = [t \in Tables |-> TRUE]
    /\ table = [t \in Tables |-> <<>>]
    /\ run = IdleRun
    /\ daily = IdleDaily
    /\ jobs = 0
    /\ scheduler = NoScheduler
    /\ env = None
    /\ clock = 0
    /\ fired = <<>>
    /\ tok = IdleToken
    /\ dbcall = NoCall
    /\ kpi = NoKpi
    /\ execs = NoExecutions
    /\ \E sc \in Scripts :
          ins = [NoInsights EXCEPT !.pc = "fetch", !.script = sc, !.page = 1,
                                   !.summary = NewSummary(1)]

NextMeta == FetchPage \/ ProcessInsights \/ TallyAccount

SpecMeta == InitMeta /\ [][NextMeta]_vars /\ WF_vars(NextMeta)

\* The flattening of one insight, for every actions array.
InitFlatten ==
    /\ registry = <<>>
    /\ tableExists = [t \in Tables |-> FALSE]
    /\ table = [t \in Tables |-> <<>>]
    /\ run = IdleRun
    /\ daily = IdleDaily
    /\ jobs = 0
    /\ scheduler = NoScheduler
    /\ env = None
    /\ clock = 0
    /\ fired = <<>>
    /\ tok = IdleToken
    /\ dbcall = NoCall
    /\ kpi = NoKpi
    /\ execs = NoExecutions
    /\ ins = NoInsights
    /\ \E a \in ActionArrays :
          flat = [NoFlatten EXCEPT !.pc = "actions", !.actions = a, !.i = 1]

NextFlatten == ParseAction \/ AppendMetaRow

SpecFlatten == InitFlatten /\ [][NextFlatten]_vars

(***************************************************************************)
(* Claims.                                                                 *)
(***************************************************************************)
InBatch == run.pc \in {"loop", "query", "flatten", "load", "returned"}

\* The names of the clients the running batch selected, in its order.
SelectedNames == [j \in DOMAIN run.active_clients |-> run.active_clients[j].client_name]

\* Position of client `name` in the list the registry returns.
RegistryPos(name) ==
    CHOOSE k \in DOMAIN get_all_clients(registry) :
        get_all_clients(registry)[k].client_name = name

\* C1: an exception raised by one client's sync does not stop the batch: the
\* driver raises only before any client was attempted; the clients attempted
\* so far are the first selected clients, each once, in the order the
\* registry returns them; and when the driver returns its summary every
\* selected client has been attempted.
C1_BatchContinuesPastFailures ==
    /\ run.pc = "raised" => run.attempted = <<>> /\ run.returns = <<>>
    /\ InBatch =>
         /\ Len(run.attempted) <= Len(SelectedNames)
         /\ \A j \in DOMAIN run.attempted : run.attempted[j] = SelectedNames[j]
         /\ \A j, k \in DOMAIN run.attempted :
                j < k => /\ run.attempted[j] # run.attempted[k]
                         /\ RegistryPos(run.attempted[j]) < RegistryPos(run.attempted[k])
    /\ run.pc = "returned" =>
         /\ run.attempted = SelectedNames
         /\ Len(run.returns) = Len(SelectedNames)

\* C1 witness: a batch returned its summary after its first client's sync
\* raised and a second client was attempted all the same.
C1_Witness ==
    /\ run.pc = "returned"
    /\ Len(run.attempted) = 2
    /\ ~run.returns[1].ok
    /\ run.summary.failed >= 1

RECURSIVE SumRows(_)
SumRows(rs) ==
    IF rs = <<>> THEN 0
    ELSE (IF rs[1].ok THEN rs[1].rows ELSE 0) + SumRows(Tail(rs))

CountOk(rs) == Cardinality({j \in DOMAIN rs : rs[j].ok})

\* C2: when a batch driver returns its summary, successful + failed =
\* total_clients, every selected client is counted in exactly one tally, and
\* total_rows is the sum of the row counts the successful syncs returned,
\* which is the number of rows the batch appended to the platform's table.
C2_SummaryTallies ==
    run.pc = "returned" =>
        /\ run.summary.total_clients = Len(run.active_clients)
        /\ run.summary.successful + run.summary.failed = run.summary.total_clients
        /\ run.summary.successful = CountOk(run.returns)
        /\ run.summary.failed = Len(run.returns) - CountOk(run.returns)
        /\ run.summary.total_rows = SumRows(run.returns)
        /\ run.summary.total_rows = Len(table[CurTable]) - run.base

\* C2 witness: a returned summary with a success, a failure and loaded rows.
C2_Witness ==
    /\ run.pc = "returned"
    /\ run.summary.successful >= 1
    /\ run.summary.failed >= 1
    /\ run.summary.total_rows >= 1

\* The clients of the registry that are active and hold a non-null identifier
\* of platform p.
NonNullClients(p) ==
    {registry[j].client_name : j \in {k \in DOMAIN registry :
        registry[k].active /\ registry[k][IdField(p)] # None}}

\* The clients of the registry that are active and hold a non-null, non-empty
\* identifier of platform p.
IdentifiedClients(p) ==
    {registry[j].client_name : j \in {k \in DOMAIN registry :
        /\ registry[k].active
        /\ registry[k][IdField(p)] # None
        /\ registry[k][IdField(p)] # ""}}

\* C3 as stated: the clients a batch driver attempts are exactly the registry
\* rows that are active and whose platform identifier is non-null.
C3_Original ==
    /\ InBatch => Range(run.attempted) \subseteq NonNullClients(run.platform)
    /\ run.pc = "returned" => Range(run.attempted) = NonNullClients(run.platform)

\* C3 amended: the clients a batch driver attempts are exactly the registry
\* rows that are active and whose platform identifier is non-null and not the
\* empty string.
C3_AttemptsIdentifiedActiveClients ==
    /\ InBatch => Range(run.attempted) \subseteq IdentifiedClients(run.platform)
    /\ run.pc = "returned" => Range(run.attempted) = IdentifiedClients(run.platform)

\* C3 witness: a batch returned over a registry with an active client that was
\* attempted and an active client with an empty identifier that was not.
C3_Witness ==
    /\ run.pc = "returned"
    /\ run.attempted # <<>>
    /\ \E j \in DOMAIN registry :
          registry[j].active /\ registry[j][IdField(run.platform)] = ""

\* C4 as stated: every execution of daily_sync_job invokes the batch driver
\* of every ad platform: Google Ads, Meta Ads and TikTok Ads.
C4_DailyInvokesEveryAdPlatform ==
    daily.pc = "done" =>
        {"google_ads", "meta_ads", "tiktok_ads"} \subseteq Range(daily.invoked)

\* C6: daily_sync_job never invokes the GA4 batch driver and never writes a
\* row to the ga4_performance table.
C6_DailyLeavesGA4Alone ==
    /\ "ga4" \notin Range(daily.invoked)
    /\ run.caller = "daily" => run.platform # "ga4"
    /\ \A j \in DOMAIN table["ga4_performance"] :
          table["ga4_performance"][j].by # "daily"

\* C6 witness: a daily job ran to its end over a registry holding an active
\* client with a GA4 property.
C6_Witness ==
    /\ daily.pc = "done"
    /\ \E j \in DOMAIN registry :
          registry[j].active /\ registry[j].ga4_property_id = "acct"

\* C7 as stated: once ensure_table_exists has returned, the platform's
\* destination table exists.
C7_TableExistsAfterEnsure ==
    (\E j \in DOMAIN run.trace : run.trace[j].ev = "ensure")
        => tableExists[CurTable]

\* Some step `a` (of client c, or a driver step when c = 0) precedes position j.
Before(a, c, j) ==
    \E i \in 1..(j - 1) : run.trace[i].ev = a /\ run.trace[i].c = c

\* C8: in every batch run the clients are set up first, ensure_table_exists
\* is called before any vendor report is queried, a client's rows are loaded
\* only after that client's report was queried and flattened, and no load
\* happens before ensure_table_exists was called.
C8_StepsInOrder ==
    /\ run.trace # <<>> => run.trace[1].ev = "setup"
    /\ \A j \in DOMAIN run.trace :
         LET e == run.trace[j] IN
         /\ e.ev = "ensure" => Before("setup", 0, j)
         /\ e.ev = "query" => Before("setup", 0, j) /\ Before("ensure", 0, j)
         /\ e.ev = "flatten" => Before("query", e.c, j)
         /\ e.ev = "load" => /\ Before("ensure", 0, j)
                             /\ Before("query", e.c, j)
                             /\ Before("flatten", e.c, j)
                             /\ \E i \in 1..(j - 1) :
                                   /\ run.trace[i].ev = "query" /\ run.trace[i].c = e.c
                                   /\ Before("ensure", 0, i)
                                   /\ \E k \in (i + 1)..(j - 1) :
                                         run.trace[k].ev = "flatten" /\ run.trace[k].c = e.c
    /\ InBatch /\ Len(table[CurTable]) # run.base => Before("ensure", 0, Len(run.trace) + 1)
    /\ run.pc = "load" => /\ Before("flatten", CurClient.client_name, Len(run.trace) + 1)
                          /\ Before("ensure", 0, Len(run.trace) + 1)

\* C8 witness: a client's rows have just been loaded.
C8_Witness ==
    /\ run.pc = "loop"
    /\ run.trace # <<>>
    /\ run.trace[Len(run.trace)].ev = "load"
    /\ Len(table[CurTable]) > run.base

LoadedFor(t, c) ==
    {k \in DOMAIN table[t] :
        /\ table[t][k].client = c
        /\ table[t][k].job = jobs
        /\ table[t][k].by = run.caller}

\* C10: a client whose sync raised has no row in the table from this run and
\* adds nothing to total_rows, while the rows loaded for the other clients of
\* the batch stay in place.
C10_FailedClientLoadsNothing ==
    InBatch =>
        /\ \A j \in DOMAIN run.returns :
             LET c == run.active_clients[j].client_name IN
             /\ ~run.returns[j].ok => LoadedFor(CurTable, c) = {}
             /\ run.returns[j].ok =>
                    Cardinality(LoadedFor(CurTable, c)) = run.returns[j].rows
        /\ run.summary.total_rows = SumRows(run.returns)

\* C10 witness: a client's sync raised after another client's rows had been
\* loaded in the same batch.
C10_Witness ==
    /\ InBatch
    /\ \E j, k \in DOMAIN run.returns :
          /\ j < k
          /\ run.returns[j].ok /\ run.returns[j].rows >= 1
          /\ ~run.returns[k].ok
          /\ LoadedFor(CurTable, run.active_clients[j].client_name) # {}

\* Every fired job was fired at 08:00.
FiredOnlyAtEight == \A j \in DOMAIN fired : fired[j].at % 24 = 8

\* No two jobs were fired at the same time.
FiredOncePerTime ==
    \A j, k \in DOMAIN fired : j # k => fired[j].at # fired[k].at

\* Job `id` was fired at every time after the scheduler's start that `due` holds of.
FiredWhenever(id, due(_)) ==
    scheduler.initialized =>
        \A t \in (scheduler.started + 1)..clock :
            due(t) => \E j \in DOMAIN fired : fired[j].id = id /\ fired[j].at = t

AtEight(t) == t % 24 = 8

EverySixHours(t) == (t - scheduler.started) % 6 = 0

\* C5 as stated: for every value of the environment, the scheduler fires
\* daily_sync_job once a day, at 08:00, and at no other time.
C5_Original ==
    /\ FiredOnlyAtEight
    /\ FiredOncePerTime
    /\ FiredWhenever("daily_sync", AtEight)

\* C5 amended: unless ENABLE_FREQUENT_SYNC, lower-cased, is "true", the
\* scheduler fires daily_sync_job once a day, at 08:00, and at no other time;
\* when it is "true" the scheduler fires the job at 08:00 every day and also
\* every 6 hours counted from its start, and at no other time.
C5_FiresDailyUnlessFrequentSync ==
    /\ ~scheduler.initialized => fired = <<>>
    /\ env \notin {"true", "TRUE", "True"} =>
         /\ FiredOnlyAtEight
         /\ FiredOncePerTime
         /\ FiredWhenever("daily_sync", AtEight)
    /\ env \in {"true", "TRUE", "True"} =>
         /\ FiredWhenever("daily_sync", AtEight)
         /\ FiredWhenever("frequent_sync", EverySixHours)
         /\ \A j \in DOMAIN fired :
               \/ fired[j].id = "daily_sync" /\ AtEight(fired[j].at)
               \/ fired[j].id = "frequent_sync" /\ EverySixHours(fired[j].at)
         /\ \A j, k \in DOMAIN fired :
               j # k => fired[j].at # fired[k].at \/ fired[j].id # fired[k].id

\* C5 witness: with ENABLE_FREQUENT_SYNC set to "false" the job has been fired
\* on two days, once each.
C5_Witness ==
    /\ scheduler.initialized
    /\ env = "false"
    /\ Len(fired) = 2
    /\ fired[2].at = fired[1].at + 24

\* C11 as stated: auto_refresh_if_needed(days_threshold = T) attempts a token
\* exchange exactly when the current token is valid, has an expiry date and
\* has fewer than T days left; with T or more days left no exchange is
\* attempted and the action is no_refresh_needed.
C11_ExchangeBelowThreshold ==
    tok.pc = "returned" =>
        LET expiring == tok.token_info.valid /\ tok.token_info.expires_at = "date" IN
        /\ tok.exchanges > 0 <=>
              (expiring /\ tok.token_info.days_left < tok.days_threshold)
        /\ (expiring /\ tok.token_info.days_left >= tok.days_threshold) =>
              tok.exchanges = 0 /\ tok.result = NoRefreshNeeded

\* C12 as stated: once the scheduler is initialised it invokes
\* scheduled_token_refresh every day: a registered job runs it, and within
\* every 24 hours after the start it has been fired.
C12_TokenRefreshScheduled ==
    scheduler.initialized =>
        /\ \E id \in scheduler.jobs : JobFunc(id) = "scheduled_token_refresh"
        /\ \A t \in scheduler.started..(clock - 24) :
              \E j \in DOMAIN fired :
                  /\ JobFunc(fired[j].id) = "scheduled_token_refresh"
                  /\ fired[j].at > t /\ fired[j].at <= t + 24

\* C17 as stated: auto_refresh_if_needed reports token_refreshed only when the
\* exchange returned a new token and that new token, not the current one, was
\* the token validated as valid.
C17_RefreshedMeansNewTokenValidated ==
    (tok.pc = "returned" /\ tok.result = TokenRefreshed) =>
        /\ tok.exchanges = 1
        /\ tok.new_token = "new"
        /\ tok.validated = <<"current", "new">>
        /\ tok.new_token_info = tok.vendor["new"]
        /\ tok.new_token_info.valid

\* The client names of a list of registry rows.
NamesOf(cs) == {cs[j].client_name : j \in DOMAIN cs}

\* C13: insert_client stores the row with active = TRUE whatever 'active'
\* value the caller supplied and returns the new row's client_id; after any
\* sequence of insert_client and update_client calls get_all_clients returns
\* exactly the rows whose active flag is TRUE, each once; and a client
\* deactivated through update_client is returned no more and is selected by
\* no platform's batch driver.
C13_RegistryActiveFlag ==
    /\ (dbcall.op = "insert" /\ dbcall.result.ok) =>
          /\ dbcall.result.client_id = Len(registry)
          /\ registry[Len(registry)].client_name = dbcall.result.client_id
          /\ registry[Len(registry)].active = TRUE
    /\ NamesOf(get_all_clients(registry)) =
          {registry[j].client_name : j \in {k \in DOMAIN registry : registry[k].active = TRUE}}
    /\ Len(get_all_clients(registry)) = Cardinality(NamesOf(get_all_clients(registry)))
    /\ (/\ dbcall.op = "update" /\ dbcall.result.ok /\ dbcall.result.updated
        /\ dbcall.data.col = "active" /\ dbcall.data.val = FALSE) =>
          dbcall.client \notin NamesOf(get_all_clients(registry))
    /\ \A j \in DOMAIN registry : \A q \in Platforms :
          registry[j].active = FALSE =>
              registry[j].client_name \notin
                  NamesOf(ActiveClients(get_all_clients(registry), q))

\* C13 witness: a client inserted with a platform identifier has just been
\* deactivated through update_client while another client stays active.
C13_Witness ==
    /\ dbcall.op = "update" /\ dbcall.result.ok /\ dbcall.result.updated
    /\ dbcall.data.col = "active" /\ dbcall.data.val = FALSE
    /\ registry[dbcall.client][IdField(DbPlatform)] = "acct"
    /\ Len(get_all_clients(registry)) = 1

\* The ratio the claim gives for KPI k, as numerator and denominator over the
\* reported metrics (Google Ads reports its cost in millionths).
RatioOf(k, p, m) ==
    LET unit == IF p = "google_ads" THEN 1000000 ELSE 1 IN
    CASE k = "ctr"  -> [num |-> m.clicks * 100, den |-> m.impressions]
      [] k = "cpc"  -> [num |-> m.cost, den |-> unit * m.clicks]
      [] k = "cpm"  -> [num |-> m.cost * 1000, den |-> unit * m.impressions]
      [] k = "cpa"  -> [num |-> m.cost, den |-> unit * m.conversions]
      [] k = "roas" -> [num |-> m.value * unit, den |-> m.cost]

\* C14: computing the derived KPIs never raises a division error, and every
\* locally computed KPI is 0 when its denominator metric is 0 (CTR and CPM:
\* impressions, CPC: clicks, CPA: conversions, ROAS: cost/spend) and equals
\* its ratio otherwise.
C14_DerivedKPIsTotal ==
    /\ kpi.pc # "raised"
    /\ kpi.pc \in {"computed", "done"} =>
          \A k \in DOMAIN kpi.out :
              LET r == RatioOf(k, kpi.platform, kpi.m)
                  v == kpi.out[k] IN
              /\ ~v.err /\ v.d > 0
              /\ r.den = 0 => v.n = 0
              /\ r.den > 0 => v.n * r.den = r.num * v.d

\* C14 witness: all five KPIs of a Google Ads row were computed, CTR, CPM and
\* CPA with a zero denominator and CPC and ROAS as non-zero ratios.
C14_Witness ==
    /\ kpi.pc = "done" /\ kpi.platform = "google_ads"
    /\ kpi.m.impressions = 0 /\ kpi.m.conversions = 0
    /\ kpi.out.ctr.n = 0 /\ kpi.out.cpa.n = 0
    /\ kpi.out.cpc.n > 0 /\ kpi.out.roas.n > 0

\* The number of rows of table t that execution e loaded.
RowsBy(e, t) == Cardinality({j \in DOMAIN table[t] : table[t][j].by = e})

\* A driver summary of execution e for platform p that tallies every selected
\* client once and counts exactly the rows e loaded into p's table.
OwnSummary(e, p, s) ==
    /\ s.total_clients = Len(ActiveClients(get_all_clients(registry), p))
    /\ s.successful + s.failed <= s.total_clients
    /\ s.total_rows = RowsBy(e, TableOf(p))

C16_GoogleLoadIdempotent ==
    \A j, k \in DOMAIN table["google_ads_performance"] :
        LET a == table["google_ads_performance"][j]
            b == table["google_ads_performance"][k] IN
        (a.client = b.client /\ a.k = b.k) => j = k

\* The concatenation of the data of the script's pages 1..j, in order.
RECURSIVE AllPages(_, _)
AllPages(sc, j) ==
    IF j = 0 THEN <<>> ELSE AllPages(sc, j - 1) \o PageData(j, sc[j].n)

\* The account's sync got past get_account_insights.
InsightsReturned ==
    ins.pc \in {"returned", "synced"} \/ ins.raised_at \in {"flatten", "load"}
        \/ (ins.pc = "tallied" /\ ins.raised_at # "insights")

\* C18: get_account_insights requests page after page along paging.next,
\* collecting the pages' data in order; unless a request times out it returns
\* only at a page without a next link, with the concatenation of the data of
\* all pages; a non-200 response on any page raises, and nothing of the pages
\* collected before it is returned or loaded; and the loop ends whenever the
\* vendor's pages end.
C18_PagingCollectsAllPages ==
    /\ [](/\ ins.pc = "fetch" =>
                /\ ins.all_data = AllPages(ins.script, ins.page - 1)
                /\ \A j \in 1..(ins.page - 1) : ins.script[j] \in LinkedPages
          /\ (InsightsReturned /\ ~ins.timed_out) =>
                /\ ins.script[ins.page].kind = "page" /\ ~ins.script[ins.page].next
                /\ ins.all_data = AllPages(ins.script, ins.page)
          /\ (ins.pc \notin {"idle", "fetch"} /\ ins.script[ins.page].kind = "error") =>
                /\ ins.raised_at = "insights"
                /\ table["meta_ads_performance"] = <<>>
                /\ ins.pc = "tallied" => ins.summary = TallyFailure(NewSummary(1)))
    /\ <>(ins.pc # "fetch")

\* C18 witness: get_account_insights returned the data of three pages.
C18_Witness ==
    /\ ins.pc = "returned" /\ ~ins.timed_out
    /\ ins.page = 3
    /\ Len(ins.all_data) = 3
    /\ ins.all_data[1].page = 1 /\ ins.all_data[3].page = 3

FirstPlatforms(n) == SubSeq(DailyPlatforms, 1, n)

\* C20: daily_sync_job never raises and always returns a results record: it
\* calls the Google Ads driver first and the Meta Ads driver second; a driver
\* that raises leaves the job running, its platform's entry keeps the zero
\* tallies and gains the error, and the job goes on to the next platform;
\* and the job returns only after both drivers were called, with an entry
\* for each.
C20_DailyJobAlwaysReturns ==
    /\ [](/\ daily.pc \in {"running", "done"} =>
                /\ daily.invoked = FirstPlatforms(Len(daily.invoked))
                /\ DOMAIN daily.results = {"google_ads", "meta_ads"}
                /\ \A p \in DOMAIN daily.results :
                      "error" \in DOMAIN daily.results[p] =>
                          /\ daily.results[p].success = 0
                          /\ daily.results[p].failed = 0
                          /\ daily.results[p].total_rows = 0
                          /\ p \in Range(daily.invoked)
          /\ (run.caller = "daily" /\ run.pc = "raised") => daily.pc = "running"
          /\ daily.pc = "done" => daily.invoked = <<"google_ads", "meta_ads">>)
    /\ [][(run.caller = "daily" /\ run.pc = "raised" /\ daily' # daily) =>
             /\ daily'.pc = "running"
             /\ daily'.k = daily.k + 1
             /\ daily'.results[run.platform] = ErrorEntry
             /\ "error" \in DOMAIN daily'.results[run.platform]]_vars

\* C20 witness: the job returned its results after the Google Ads driver
\* raised and the Meta Ads driver synced a client.
C20_Witness ==
    /\ daily.pc = "done"
    /\ daily.results["google_ads"] = ErrorEntry
    /\ "error" \notin DOMAIN daily.results["meta_ads"]
    /\ daily.results["meta_ads"].successful >= 1

\* The latest driver-level step of the current run.
LastDriverStep == DriverSteps(run.trace)[Len(DriverSteps(run.trace))].ev

\* C21: a batch driver raises only out of the constructor of its sync object
\* or out of the registry read, and then no client sync was attempted, no
\* summary was built and no row was loaded; ensure_table_exists, whether
\* create_table succeeded or failed, always hands over to the registry read.
C21_SetupFailureAbortsBatch ==
    /\ [](run.pc = "raised" =>
              /\ LastDriverStep \in {"setup", "registry"}
              /\ run.attempted = <<>>
              /\ run.returns = <<>>
              /\ run.summary = IdleRun.summary
              /\ Len(table[CurTable]) = run.base)
    /\ [][/\ (run.pc = "ensure" /\ run' # run) => run'.pc = "registry"
          /\ (run.pc # "raised" /\ run'.pc = "raised") =>
                 run.pc \in {"setup", "registry"}]_vars

\* C21 witness: create_table failed (the table is still missing after
\* ensure_table_exists), the driver went on to the registry read, and that
\* read raised although the registry holds a client the driver would sync.
C21_Witness ==
    /\ run.pc = "raised"
    /\ LastDriverStep = "registry"
    /\ \E j \in DOMAIN run.trace : run.trace[j].ev = "ensure"
    /\ ~tableExists[CurTable]
    /\ ActiveClients(get_all_clients(registry), run.platform) # <<>>

\* The steps of one call of auto_refresh_if_needed.
CallStep ==
    auto_refresh_if_needed \/ CheckToken \/ exchange_for_long_lived_token
        \/ ValidateNewToken

\* C22: a call of auto_refresh_if_needed always goes on until it returns,
\* and what it returns is one of the three records, success being False
\* exactly for manual_refresh_needed: an invalid current token gives
\* manual_refresh_needed without an exchange, a token without expiry
\* no_refresh_needed without an exchange, a failed exchange or an invalid new
\* token manual_refresh_needed, and a valid new token token_refreshed whether
\* save_new_token inserted its row or failed.
C22_AutoRefreshAlwaysReturns ==
    /\ tok.pc \in {"called", "check", "exchange", "validate_new"} => ENABLED CallStep
    /\ tok.pc = "returned" =>
          /\ tok.result \in {NoRefreshNeeded, TokenRefreshed, ManualRefreshNeeded}
          /\ tok.result.success = FALSE <=> tok.result.action = "manual_refresh_needed"
          /\ ~tok.token_info.valid =>
                tok.result = ManualRefreshNeeded /\ tok.exchanges = 0
          /\ (tok.token_info.valid /\ tok.token_info.expires_at = "never") =>
                tok.result = NoRefreshNeeded /\ tok.exchanges = 0
          /\ (tok.exchanges = 1 /\ Len(tok.validated) = 1) =>
                tok.result = ManualRefreshNeeded
          /\ (Len(tok.validated) = 2 /\ ~tok.new_token_info.valid) =>
                tok.result = ManualRefreshNeeded
          /\ (Len(tok.validated) = 2 /\ tok.new_token_info.valid) =>
                tok.result = TokenRefreshed

\* C22 witness: the new token was valid, save_new_token failed to insert its
\* row, and the call returned token_refreshed.
C22_Witness ==
    /\ tok.pc = "returned"
    /\ Len(tok.validated) = 2
    /\ tok.new_token_info.valid
    /\ ~tok.saved /\ tok.history = <<>>
    /\ tok.result = TokenRefreshed

\* The current token is valid, has an expiry date and is within the threshold.
WithinThreshold ==
    /\ tok.token_info.valid
    /\ tok.token_info.expires_at = "date"
    /\ RefreshDue(tok.token_info.days_left, tok.days_threshold)

RECURSIVE SumOfTypes(_, _)
SumOfTypes(a, types) ==
    IF a = <<>> THEN 0
    ELSE (IF a[1].action_type \in types THEN a[1].value ELSE 0)
             + SumOfTypes(Tail(a), types)

\* C25 as stated: the row's conversions field is the sum of the values of
\* every purchase, lead, registration and add-to-cart action of the actions
\* array, so conversions is never smaller than the row's purchases field.
C25_ConversionsCoverPurchases ==
    flat.pc = "appended" =>
        /\ flat.row.conversions = SumOfTypes(flat.actions, ConversionTypes)
        /\ flat.row.conversions >= ValueScale * flat.row.purchases

====
